---- MODULE Spec2Model ----
(***************************************************************************)
(* Jobs API: the account controller (register, login), the authentication  *)
(* middleware, the job controller (getAllJobs, getJob, createJob,           *)
(* updateJob, deleteJob) and the two mongoose models they use.              *)
(*                                                                         *)
(* Requests are handled concurrently.  A handler runs synchronously up to   *)
(* its first await (the "Req" actions: the authentication middleware and    *)
(* the checks made before the store is called) and is resumed when the      *)
(* store has executed its single, atomic operation (the "Done" actions).    *)
(***************************************************************************)
EXTENDS Integers, Sequences, FiniteSets, TLC

VARIABLES
    users,      \* the User collection: ObjectId -> user document
    jobs,       \* the Job collection: ObjectId -> job document
    nextOid,    \* the next ObjectId the driver generates
    now,        \* the clock (Date.now(), and the clock jsonwebtoken reads)
    inflight,   \* request slot -> idle | pending request | answered request
    creator     \* history: job ObjectId -> ObjectId of the user createJob ran for

vars == <<users, jobs, nextOid, now, inflight, creator>>

----------------------------------------------------------------------------
(* Bounds of the model *)

MaxUsers == 2
MaxJobs == 1
MaxListed == 3
MaxTime == 2
MaxInflight == 2

(* Program constants; Lifetime is process.env.JWT_LIFETIME in ticks of the clock *)

Lifetime == 2
NameMinLength == 3
NameMaxLength == 50
PasswordMinLength == 6
CompanyMaxLength == 50
PositionMaxLength == 100
SaltRounds == 10
OK == 200
CREATED == 201

JWT_SECRET == "jwt-secret"

Slots == 1..MaxInflight

----------------------------------------------------------------------------
(* ObjectId <-> its 24 character hex string *)

HexDigit == <<"1", "2", "3", "4", "5", "6", "7", "8", "9", "a", "b", "c", "d", "e", "f">>

OidSpace == 1..Len(HexDigit)

\* ObjectId.prototype.toString / toJSON: what jwt.sign and res.json serialise
toHexString(oid) == "64f0c0ffee0000000000000" \o HexDigit[oid]

\* 0 stands for the CastError mongoose raises on a string that is no ObjectId
CastError == 0

castObjectId(s) ==
    IF Len(s) = 24 /\ \E n \in OidSpace : toHexString(n) = s
    THEN CHOOSE n \in OidSpace : toHexString(n) = s
    ELSE CastError

----------------------------------------------------------------------------
(* The User model *)

Salts == {"$2a$10$saltA", "$2a$10$saltB"}

\* bcrypt.hash(password, salt): determined by the password and the salt, and
\* carrying the salt so that compare can recompute it
bcryptHash(password, salt) == [salt |-> salt, digest |-> <<salt, password>>]

\* bcrypt.compare(candidate, hash)
bcryptCompare(candidate, hash) == bcryptHash(candidate, hash.salt) = hash

comparePassword(user, canditatePassword) == bcryptCompare(canditatePassword, user.password)

\* The email pattern, on the inputs of the model: a non-empty local part, one
\* "@", and a domain with a dot followed by at least two characters
EmailMatch(s) ==
    \E i \in 2..Len(s) :
        /\ SubSeq(s, i, i) = "@"
        /\ \A k \in 1..Len(s) : SubSeq(s, k, k) = "@" => k = i
        /\ \E j \in (i + 2)..(Len(s) - 2) : SubSeq(s, j, j) = "."

\* The schema's validators, run by User.create on the request body
UserValid(body) ==
    /\ "name" \in DOMAIN body
    /\ Len(body.name) >= NameMinLength
    /\ Len(body.name) <= NameMaxLength
    /\ "email" \in DOMAIN body
    /\ EmailMatch(body.email)
    /\ "password" \in DOMAIN body
    /\ Len(body.password) >= PasswordMinLength

\* User.findOne({ email }): the unique index leaves at most one match
findUserByEmail(email) == {u \in DOMAIN users : users[u].email = email}

----------------------------------------------------------------------------
(* jsonwebtoken *)

HMAC(secret, payload) == [key |-> secret, over |-> payload]

jwtSign(claims, secret, lifetime, t) ==
    LET payload == [userId |-> claims.userId, name |-> claims.name,
                    iat |-> t, exp |-> t + lifetime]
    IN [payload |-> payload, signature |-> HMAC(secret, payload)]

\* A string that is no JWT: garbage, or the empty segment between two spaces
Garbage == [garbage |-> "abc.def"]
EmptySegment == [garbage |-> ""]

jwtVerify(token, secret, t) ==
    /\ DOMAIN token = {"payload", "signature"}
    /\ token.signature = HMAC(secret, token.payload)
    /\ t < token.payload.exp

\* createJWT with the email signed in the place of the name: C10 must tell it
\* from createJWT
createJWTNamingEmail(user, t) ==
    jwtSign([userId |-> toHexString(user._id), name |-> user.email],
            JWT_SECRET, Lifetime, t)

\* UserSchema.methods.createJWT
createJWT(user, t) ==
    jwtSign([userId |-> toHexString(user._id), name |-> user.name],
            JWT_SECRET, Lifetime, t)

----------------------------------------------------------------------------
(* Errors and responses.  A thrown error reaches the error handler, which  *)
(* answers with the error's status code and the body {msg}.                *)

StatusOf(kind) ==
    CASE kind = "BadRequestError" -> 400
      [] kind = "ValidationError" -> 400
      [] kind = "DuplicateKey" -> 400
      [] kind = "UnauthenticatedError" -> 401
      [] kind = "NotFoundError" -> 404
      [] OTHER -> 500

Throw(kind, msg) == [status |-> StatusOf(kind), err |-> kind, body |-> [msg |-> msg]]

Json(status, body) == [status |-> status, err |-> "none", body |-> body]

----------------------------------------------------------------------------
(* The authentication middleware *)

NoHeader == [present |-> FALSE]

Authorization(scheme, parts) == [present |-> TRUE, scheme |-> scheme, parts |-> parts]

\* The header is the string scheme ' ' parts[1] ' ' parts[2] ...; scheme holds
\* no space, so the string starts with 'Bearer' exactly when scheme does
startsWithBearer(hdr) ==
    Len(hdr.scheme) >= 6 /\ SubSeq(hdr.scheme, 1, 6) = "Bearer"

NoUser == [userId |-> "", name |-> ""]

auth(hdr, t) ==
    IF \/ ~hdr.present
       \/ (hdr.scheme = "" /\ hdr.parts = <<>>)
       \/ ~startsWithBearer(hdr)
    THEN [ok |-> FALSE, user |-> NoUser,
          error |-> Throw("UnauthenticatedError", "Authentication invalid")]
    ELSE IF Len(hdr.parts) >= 1 /\ jwtVerify(hdr.parts[1], JWT_SECRET, t)
    THEN [ok |-> TRUE,
          user |-> [userId |-> hdr.parts[1].payload.userId,
                    name |-> hdr.parts[1].payload.name],
          error |-> Json(OK, <<>>)]
    ELSE [ok |-> FALSE, user |-> NoUser,
          error |-> Throw("UnauthenticatedError", "Authentication invalid")]

----------------------------------------------------------------------------
(* The Job model *)

StatusEnum == {"interview", "declined", "pending"}

\* The schema's validators, run by Job.create on the request body
JobValid(body) ==
    /\ "company" \in DOMAIN body
    /\ body.company # ""
    /\ Len(body.company) <= CompanyMaxLength
    /\ "position" \in DOMAIN body
    /\ body.position # ""
    /\ Len(body.position) <= PositionMaxLength
    /\ "status" \in DOMAIN body => body.status \in StatusEnum
    /\ "createdBy" \in DOMAIN body
    /\ castObjectId(body.createdBy) # CastError

\* The document Job.create builds: the schema's paths of the body, the default
\* status, a fresh _id and the two timestamps
JobDocument(body, oid, t) ==
    [_id |-> oid,
     company |-> body.company,
     position |-> body.position,
     status |-> IF "status" \in DOMAIN body THEN body.status ELSE "pending",
     createdBy |-> castObjectId(body.createdBy),
     createdAt |-> t,
     updatedAt |-> t]

\* runValidators: the validators of the paths the update sets
UpdateValid(update) ==
    /\ "company" \in DOMAIN update =>
           update.company # "" /\ Len(update.company) <= CompanyMaxLength
    /\ "position" \in DOMAIN update =>
           update.position # "" /\ Len(update.position) <= PositionMaxLength
    /\ "status" \in DOMAIN update => update.status \in StatusEnum
    /\ "createdBy" \in DOMAIN update => castObjectId(update.createdBy) # CastError

\* The update document is the request body: every schema path it names is set
ApplyUpdate(doc, update, t) ==
    [doc EXCEPT
        !.company = IF "company" \in DOMAIN update THEN update.company ELSE @,
        !.position = IF "position" \in DOMAIN update THEN update.position ELSE @,
        !.status = IF "status" \in DOMAIN update THEN update.status ELSE @,
        !.createdBy = IF "createdBy" \in DOMAIN update
                      THEN castObjectId(update.createdBy) ELSE @,
        !.updatedAt = t]

\* A query filter selects the documents that agree with it on each path it names
Matches(doc, filter) == \A f \in DOMAIN filter : doc[f] = filter[f]

find(filter) == {j \in DOMAIN jobs : Matches(jobs[j], filter)}

\* Model.findById*(id, ...) queries { _id: id }.  The _id path casts its value
\* to an ObjectId, and an object that has an _id is cast to that _id: the
\* other keys of the object are no part of the filter
findByIdFilter(id) == [_id |-> castObjectId(id._id)]

\* res.json of a document: ObjectIds are sent as their hex strings
toJSON(doc) ==
    [_id |-> toHexString(doc._id),
     company |-> doc.company,
     position |-> doc.position,
     status |-> doc.status,
     createdBy |-> toHexString(doc.createdBy),
     createdAt |-> doc.createdAt,
     updatedAt |-> doc.updatedAt]

\* A find without the sort, in any order: C6 must tell it from sortCreatedAt
sortOmitted(ids) ==
    {q \in [1..Cardinality(ids) -> ids] : \A i, k \in DOMAIN q : i # k => q[i] # q[k]}

\* .sort('createdAt'): the orders of the selected documents that ascend in
\* createdAt (the store fixes no order among equal keys)
sortCreatedAt(ids) ==
    {q \in [1..Cardinality(ids) -> ids] :
        /\ \A i, k \in DOMAIN q : i # k => q[i] # q[k]
        /\ \A i, k \in DOMAIN q : i < k => jobs[q[i]].createdAt <= jobs[q[k]].createdAt}

----------------------------------------------------------------------------
(* Request slots *)

Idle == [st |-> "idle"]
Pending(req) == [st |-> "pending", req |-> req]
Answered(req, resp) == [st |-> "done", req |-> req, resp |-> resp]

IsPending(s, op) == inflight[s].st = "pending" /\ inflight[s].req.op = op
IsDone(s, op) == inflight[s].st = "done" /\ inflight[s].req.op = op

PendingCount(op) == Cardinality({s \in Slots : IsPending(s, op)})

\* The job routes: the authentication middleware, then the handler up to its
\* first await.  thrown is what the handler throws before it, if anything.
\* The middleware reads the headers alone: of a request it rejects the slot
\* keeps the route and the header
Protected(req, thrown) ==
    LET a == auth(req.hdr, now)
        r == [req EXCEPT !.user = a.user]
    IN IF ~a.ok THEN Answered([op |-> req.op, hdr |-> req.hdr, user |-> NoUser], a.error)
       ELSE IF thrown.err # "none" THEN Answered(r, thrown)
       ELSE Pending(r)

NoCheck(req) == Json(OK, <<>>)

----------------------------------------------------------------------------
(* What clients send *)

\* A registered user can log in at every instant since registration: these
\* are the tokens the server has signed for the accounts that exist
ClientTokens ==
    UNION {{createJWT(users[u], t) : t \in users[u].createdAt..now} : u \in DOMAIN users}

\* Tokens the server never signed: signed with another key, or a signed
\* payload altered to name another user
ForgedTokens ==
    {jwtSign(tok.payload, "attacker-key", Lifetime, tok.payload.iat) : tok \in ClientTokens}
    \cup UNION {{[tok EXCEPT !.payload.userId = toHexString(u)] :
                    u \in DOMAIN users \ {castObjectId(tok.payload.userId)}} :
                tok \in ClientTokens}

Headers ==
    {NoHeader, Authorization("", <<>>), Authorization("Bearer", <<>>)}
    \cup {Authorization(scheme, <<tok>>) :
             scheme \in {"Bearer", "Bearerx", "Basic"},
             tok \in ClientTokens \cup ForgedTokens \cup {Garbage}}
    \cup {Authorization("Bearer", <<EmptySegment, tok>>) : tok \in ClientTokens}

LongCompany == "An employer whose name is longer than fifty characters"

RegisterBodies ==
    {[name |-> "Ann", email |-> "ann@x.com", password |-> "secret1"],
     [name |-> "Bob", email |-> "bob@x.com", password |-> "secret1"],
     [name |-> "Bob", email |-> "ann@x.com", password |-> "hunter22"],
     [name |-> "Al", email |-> "al@x.com", password |-> "secret1"],
     [name |-> "Ann", email |-> "ann.x.com", password |-> "secret1"],
     [name |-> "Ann", email |-> "ann@x.com", password |-> "abc"],
     [email |-> "ann@x.com", password |-> "secret1"]}

LoginBodies ==
    {[email |-> "ann@x.com", password |-> "secret1"],
     [email |-> "ann@x.com", password |-> "hunter22"],
     [email |-> "bob@x.com", password |-> "secret1"],
     [email |-> "carol@x.com", password |-> "secret1"],
     [email |-> "ann@x.com"],
     [email |-> "", password |-> "secret1"]}

UserIdStrings == {toHexString(u) : u \in DOMAIN users}

CreateBodies ==
    {[company |-> "Acme", position |-> "Engineer"],
     [company |-> LongCompany, position |-> "Engineer", status |-> "interview"]}
    \cup {[company |-> "Acme", position |-> "Engineer", createdBy |-> u] :
             u \in UserIdStrings}

UpdateBodies ==
    {[position |-> ""],
     [company |-> "", position |-> "Analyst", status |-> "declined"],
     [company |-> "Initech", status |-> "declined"],
     [status |-> "hired"]}
    \cup {[createdBy |-> u] : u \in UserIdStrings}

UnusedOid == Len(HexDigit)

JobIdParams == {toHexString(j) : j \in DOMAIN creator \cup {UnusedOid}}

----------------------------------------------------------------------------
(* Actions *)

Init ==
    /\ users = <<>>
    /\ jobs = <<>>
    /\ nextOid = 1
    /\ now = 0
    /\ inflight = [s \in Slots |-> Idle]
    /\ creator = <<>>

Free(s) == inflight[s].st # "pending"

Put(s, slot) == inflight' = [inflight EXCEPT ![s] = slot]

Tick ==
    /\ now < MaxTime
    /\ now' = now + 1
    /\ UNCHANGED <<users, jobs, nextOid, inflight, creator>>

\* POST /auth/register: no middleware, and nothing before User.create
RegisterReq(s) ==
    /\ Free(s)
    /\ Cardinality(DOMAIN users) + PendingCount("register") < MaxUsers
    /\ \E body \in RegisterBodies :
           Put(s, Pending([op |-> "register", hdr |-> NoHeader, user |-> NoUser,
                           body |-> body]))
    /\ UNCHANGED <<users, jobs, nextOid, now, creator>>

\* register, from User.create on: validation, the pre-save hook that hashes
\* the password, the insert under the unique index, createJWT, the response
RegisterDone(s) ==
    /\ IsPending(s, "register")
    /\ LET req == inflight[s].req
           body == req.body
       IN IF ~UserValid(body)
          THEN /\ Put(s, Answered(req, Throw("ValidationError", "Please provide valid user data")))
               /\ UNCHANGED <<users, nextOid>>
          ELSE IF findUserByEmail(body.email) # {}
          THEN /\ Put(s, Answered(req, Throw("DuplicateKey", "Duplicate value entered for email")))
               /\ UNCHANGED <<users, nextOid>>
          ELSE \E salt \in Salts :
                  LET user == [_id |-> nextOid,
                               name |-> body.name,
                               email |-> body.email,
                               password |-> bcryptHash(body.password, salt),
                               createdAt |-> now,
                               updatedAt |-> now]
                  IN /\ users' = users @@ (nextOid :> user)
                     /\ nextOid' = nextOid + 1
                     /\ Put(s, Answered(req,
                            Json(CREATED, [user |-> [name |-> user.name, email |-> user.email],
                                           token |-> createJWT(user, now)])))
    /\ UNCHANGED <<jobs, now, creator>>

\* POST /auth/login: no middleware; the check of the body comes before findOne
LoginReq(s) ==
    /\ Free(s)
    /\ \E body \in LoginBodies :
           LET req == [op |-> "login", hdr |-> NoHeader, user |-> NoUser, body |-> body]
           IN IF \/ "email" \notin DOMAIN body
                 \/ body.email = ""
                 \/ "password" \notin DOMAIN body
                 \/ body.password = ""
              THEN Put(s, Answered(req, Throw("BadRequestError", "Please provide email and password")))
              ELSE Put(s, Pending(req))
    /\ UNCHANGED <<users, jobs, nextOid, now, creator>>

\* login with an answer of its own for an email no account has: C9 must tell
\* it from loginResponse
loginResponseNamingEmail(body, t) ==
    LET found == findUserByEmail(body.email)
    IN IF found = {}
       THEN Throw("UnauthenticatedError", "No account with this email")
       ELSE LET user == users[CHOOSE u \in found : TRUE]
            IN IF ~comparePassword(user, body.password)
               THEN Throw("UnauthenticatedError", "Invalid Credentials")
               ELSE Json(OK, [user |-> [name |-> user.name],
                              token |-> createJWT(user, t)])

\* login, from User.findOne on: the response
loginResponse(body, t) ==
    LET found == findUserByEmail(body.email)
    IN IF found = {}
       THEN Throw("UnauthenticatedError", "Invalid Credentials")
       ELSE LET user == users[CHOOSE u \in found : TRUE]
            IN IF ~comparePassword(user, body.password)
               THEN Throw("UnauthenticatedError", "Invalid Credentials")
               ELSE Json(OK, [user |-> [name |-> user.name],
                              token |-> createJWT(user, t)])

LoginDone(s) ==
    /\ IsPending(s, "login")
    /\ Put(s, Answered(inflight[s].req, loginResponse(inflight[s].req.body, now)))
    /\ UNCHANGED <<users, jobs, nextOid, now, creator>>

\* A request to a job route, as it reaches the router
JobRequest(op, hdr, id, body) ==
    [op |-> op, hdr |-> hdr, user |-> NoUser, id |-> id, body |-> body]

\* GET /jobs
GetAllJobsReq(s, H) ==
    /\ Free(s)
    /\ \E hdr \in H :
           LET req == JobRequest("getAllJobs", hdr, "", <<>>)
           IN Put(s, Protected(req, NoCheck(req)))
    /\ UNCHANGED <<users, jobs, nextOid, now, creator>>

\* getAllJobs: Job.find({ createdBy }).sort('createdAt') and the response
GetAllJobsDone(s) ==
    /\ IsPending(s, "getAllJobs")
    /\ LET req == inflight[s].req
           ids == find([createdBy |-> castObjectId(req.user.userId)])
       IN \E q \in sortCreatedAt(ids) :
              LET list == [i \in DOMAIN q |-> toJSON(jobs[q[i]])]
              IN Put(s, Answered(req, Json(OK, [jobs |-> list, count |-> Len(list)])))
    /\ UNCHANGED <<users, jobs, nextOid, now, creator>>

\* GET /jobs/:id
GetJobReq(s, H) ==
    /\ Free(s)
    /\ \E hdr \in H, id \in JobIdParams :
           LET req == JobRequest("getJob", hdr, id, <<>>)
           IN Put(s, Protected(req, NoCheck(req)))
    /\ UNCHANGED <<users, jobs, nextOid, now, creator>>

\* getJob: Job.findOne({ _id, createdBy }) and the response
GetJobDone(s) ==
    /\ IsPending(s, "getJob")
    /\ LET req == inflight[s].req
           found == find([_id |-> castObjectId(req.id),
                          createdBy |-> castObjectId(req.user.userId)])
       IN IF found = {}
          THEN Put(s, Answered(req, Throw("NotFoundError", "No job with id " \o req.id)))
          ELSE Put(s, Answered(req,
                   Json(OK, [job |-> toJSON(jobs[CHOOSE j \in found : TRUE])])))
    /\ UNCHANGED <<users, jobs, nextOid, now, creator>>

\* POST /jobs
CreateJobReq(s, H, B, max) ==
    /\ Free(s)
    /\ Cardinality(DOMAIN creator) + PendingCount("createJob") < max
    /\ \E hdr \in H, body \in B :
           LET req == JobRequest("createJob", hdr, "", body)
           IN Put(s, Protected(req, NoCheck(req)))
    /\ UNCHANGED <<users, jobs, nextOid, now, creator>>

\* createJob that keeps the createdBy of the body when there is one: C5 must
\* tell it from createJobBody
createJobBodyTrusting(req) ==
    [f \in DOMAIN req.body \cup {"createdBy"} |->
        IF f \in DOMAIN req.body THEN req.body[f] ELSE req.user.userId]

\* createJob: req.body.createdBy = req.user.userId, Job.create and the response
createJobBody(req) ==
    [f \in DOMAIN req.body \cup {"createdBy"} |->
        IF f = "createdBy" THEN req.user.userId ELSE req.body[f]]

CreateJobDone(s) ==
    /\ IsPending(s, "createJob")
    /\ LET req == inflight[s].req
           body == createJobBody(req)
       IN IF ~JobValid(body)
          THEN /\ Put(s, Answered(req, Throw("ValidationError", "Please provide valid job data")))
               /\ UNCHANGED <<jobs, nextOid, creator>>
          ELSE LET job == JobDocument(body, nextOid, now)
               IN /\ jobs' = jobs @@ (nextOid :> job)
                  /\ nextOid' = nextOid + 1
                  /\ creator' = creator @@ (nextOid :> castObjectId(req.user.userId))
                  /\ Put(s, Answered(req, Json(CREATED, [job |-> toJSON(job)])))
    /\ UNCHANGED <<users, now>>

\* The check with && in the place of ||: C8 must tell it from updateJobCheck
updateJobCheckBoth(req) ==
    IF /\ ("company" \in DOMAIN req.body /\ req.body.company = "")
       /\ ("position" \in DOMAIN req.body /\ req.body.position = "")
    THEN Throw("BadRequestError", "Company or Position fields cannot be empty")
    ELSE Json(OK, <<>>)

\* PATCH /jobs/:id: the check of company and position comes before the store
updateJobCheck(req) ==
    IF \/ ("company" \in DOMAIN req.body /\ req.body.company = "")
       \/ ("position" \in DOMAIN req.body /\ req.body.position = "")
    THEN Throw("BadRequestError", "Company or Position fields cannot be empty")
    ELSE Json(OK, <<>>)

UpdateJobReq(s, H, B) ==
    /\ Free(s)
    /\ \E hdr \in H, id \in JobIdParams, body \in B :
           LET req == JobRequest("updateJob", hdr, id, body)
           IN Put(s, Protected(req, updateJobCheck(req)))
    /\ UNCHANGED <<users, jobs, nextOid, now, creator>>

\* The filter of updateJob's store call
updateJobFilter(req) == findByIdFilter([_id |-> req.id, createdBy |-> req.user.userId])

\* updateJob: Job.findByIdAndUpdate({ _id, createdBy }, req.body,
\* { new: true, runValidators: true }) and the response
UpdateJobDone(s) ==
    /\ IsPending(s, "updateJob")
    /\ LET req == inflight[s].req
           found == find(updateJobFilter(req))
       IN IF ~UpdateValid(req.body)
          THEN /\ Put(s, Answered(req, Throw("ValidationError", "Please provide valid job data")))
               /\ UNCHANGED jobs
          ELSE IF found = {}
          THEN /\ Put(s, Answered(req, Throw("NotFoundError", "No job with id " \o req.id)))
               /\ UNCHANGED jobs
          ELSE LET j == CHOOSE j \in found : TRUE
                   job == ApplyUpdate(jobs[j], req.body, now)
               IN /\ jobs' = [jobs EXCEPT ![j] = job]
                  /\ Put(s, Answered(req, Json(OK, [job |-> toJSON(job)])))
    /\ UNCHANGED <<users, nextOid, now, creator>>

\* DELETE /jobs/:id
DeleteJobReq(s, H) ==
    /\ Free(s)
    /\ \E hdr \in H, id \in JobIdParams :
           LET req == JobRequest("deleteJob", hdr, id, <<>>)
           IN Put(s, Protected(req, NoCheck(req)))
    /\ UNCHANGED <<users, jobs, nextOid, now, creator>>

\* The filter of deleteJob's store call
deleteJobFilter(req) ==
    [_id |-> castObjectId(req.id), createdBy |-> castObjectId(req.user.userId)]

\* A find that removes nothing: C7 must tell it from findOneAndDelete
findOneKeeping(filter) == jobs

\* Model.findOneAndDelete(filter): the collection once the store has removed
\* the document that matches, in the same operation that finds it
findOneAndDelete(filter) == [j \in DOMAIN jobs \ find(filter) |-> jobs[j]]

\* History: another deleteJob of the same caller for the same id is waiting
\* for the store when this one is executed
Raced(s) ==
    \E o \in Slots \ {s} :
        /\ IsPending(o, "deleteJob")
        /\ inflight[o].req.id = inflight[s].req.id
        /\ inflight[o].req.user = inflight[s].req.user

\* deleteJob: Job.findOneAndDelete({ _id, createdBy }) and the response
DeleteJobDone(s) ==
    /\ IsPending(s, "deleteJob")
    /\ LET req == inflight[s].req
           found == find(deleteJobFilter(req))
           resp == IF found = {}
                   THEN Throw("NotFoundError", "No job with id " \o req.id)
                   ELSE Json(OK, <<>>)
       IN /\ jobs' = findOneAndDelete(deleteJobFilter(req))
          /\ Put(s, [st |-> "done", req |-> req, resp |-> resp, raced |-> Raced(s)])
    /\ UNCHANGED <<users, nextOid, now, creator>>

----------------------------------------------------------------------------
(* Specifications *)

\* Two accounts registered at instant 0, and nothing else
Registered ==
    /\ users = (1 :> [_id |-> 1, name |-> "Ann", email |-> "ann@x.com",
                      password |-> bcryptHash("secret1", "$2a$10$saltA"),
                      createdAt |-> 0, updatedAt |-> 0])
            @@ (2 :> [_id |-> 2, name |-> "Bob", email |-> "bob@x.com",
                      password |-> bcryptHash("secret1", "$2a$10$saltB"),
                      createdAt |-> 0, updatedAt |-> 0])
    /\ jobs = <<>>
    /\ nextOid = 3
    /\ now = 0
    /\ inflight = [s \in Slots |-> Idle]
    /\ creator = <<>>

\* The header a well-behaved client sends: the token it got when it registered
PlainHeaders ==
    {Authorization("Bearer", <<createJWT(users[u], users[u].createdAt)>>) : u \in DOMAIN users}

\* The accounts and the gate: one client at a time
NextAccounts ==
    \/ Tick
    \/ RegisterReq(1) \/ RegisterDone(1)
    \/ LoginReq(1) \/ LoginDone(1)
    \/ GetAllJobsReq(1, Headers) \/ GetAllJobsDone(1)

SpecAccounts == Init /\ [][NextAccounts]_vars

\* The job routes, one request at a time
NextJobs ==
    \/ Tick
    \/ GetAllJobsReq(1, PlainHeaders) \/ GetAllJobsDone(1)
    \/ GetJobReq(1, PlainHeaders) \/ GetJobDone(1)
    \/ CreateJobReq(1, PlainHeaders, CreateBodies, MaxJobs) \/ CreateJobDone(1)
    \/ UpdateJobReq(1, PlainHeaders, UpdateBodies) \/ UpdateJobDone(1)
    \/ DeleteJobReq(1, PlainHeaders) \/ DeleteJobDone(1)

SpecJobs == Registered /\ [][NextJobs]_vars

\* createJob and deleteJob with MaxInflight requests in flight
NextConcurrent ==
    \E s \in Slots :
        \/ CreateJobReq(s, PlainHeaders, {[company |-> "Acme", position |-> "Engineer"]}, MaxJobs)
        \/ CreateJobDone(s)
        \/ DeleteJobReq(s, PlainHeaders) \/ DeleteJobDone(s)

SpecConcurrent == Registered /\ [][NextConcurrent]_vars

\* Lists of up to MaxListed jobs: one request at a time
NextList ==
    \/ Tick
    \/ CreateJobReq(1, PlainHeaders, {[company |-> "Acme", position |-> "Engineer"]}, MaxListed)
    \/ CreateJobDone(1)
    \/ DeleteJobReq(1, PlainHeaders) \/ DeleteJobDone(1)
    \/ GetAllJobsReq(1, PlainHeaders) \/ GetAllJobsDone(1)

SpecList == Registered /\ [][NextList]_vars

----------------------------------------------------------------------------
(* Vocabulary of the properties *)

JobOps == {"getAllJobs", "getJob", "createJob", "updateJob", "deleteJob"}

\* The request in slot s is answered in this step
Answers(s, op) == IsPending(s, op) /\ inflight'[s].st = "done"

\* A request reaches slot s in this step
Arrives(s) == inflight[s].st # "pending" /\ inflight'[s] # inflight[s]

\* The caller the gate attached to the request, and the job the route names
Caller(req) == castObjectId(req.user.userId)
Target(req) == castObjectId(req.id)

\* A header of the form Bearer <token> (whatever follows the token) whose
\* token the server signed and that has not expired at t
Acceptable(hdr, t) ==
    /\ hdr.present
    /\ hdr.scheme = "Bearer"
    /\ Len(hdr.parts) >= 1
    /\ hdr.parts[1] \in ClientTokens
    /\ t < hdr.parts[1].payload.exp

NotFound(req) == Throw("NotFoundError", "No job with id " \o req.id)

----------------------------------------------------------------------------
(* C1: a getJob or deleteJob of a caller who did not create the job is     *)
(* answered NotFound, without the job's data, and leaves the collection as *)
(* it was, whatever happened before.                                       *)

C1_GetDeleteIsolation ==
    [][\A s \in Slots :
          (Answers(s, "getJob") \/ Answers(s, "deleteJob")) =>
              LET req == inflight[s].req
              IN (Target(req) \in DOMAIN creator /\ creator[Target(req)] # Caller(req)) =>
                     /\ inflight'[s].resp = NotFound(req)
                     /\ jobs' = jobs]_vars

(* C2: an updateJob of a caller who did not create the job, with a body    *)
(* the validators accept, is answered NotFound, without the job's data, and *)
(* leaves every field of the job as it was.                                *)

C2_UpdateIsolation ==
    [][\A s \in Slots :
          Answers(s, "updateJob") =>
              LET req == inflight[s].req
              IN (/\ Target(req) \in DOMAIN creator
                  /\ creator[Target(req)] # Caller(req)
                  /\ UpdateValid(req.body)) =>
                     /\ inflight'[s].resp = NotFound(req)
                     /\ jobs' = jobs]_vars

(* C3: while a job exists its createdBy keeps the value it had: no step    *)
(* changes the createdBy of a job that is there before and after it.       *)

C3_CreatedByImmutable ==
    [][\A j \in DOMAIN jobs \cap DOMAIN jobs' :
          jobs'[j].createdBy = jobs[j].createdBy]_vars

(* C4: a request to a job route whose Authorization header is absent, is   *)
(* not of the form Bearer <token>, or carries a token that does not verify *)
(* is answered 401 "Authentication invalid" on arrival, before any handler *)
(* runs, and the Job collection is left as it was.                         *)

C4_GateRejects ==
    [][\A s \in Slots :
          (Arrives(s) /\ inflight'[s].req.op \in JobOps
                      /\ ~Acceptable(inflight'[s].req.hdr, now)) =>
              /\ inflight'[s].st = "done"
              /\ inflight'[s].resp = [status |-> 401, err |-> "UnauthenticatedError",
                                      body |-> [msg |-> "Authentication invalid"]]
              /\ jobs' = jobs]_vars

(* C5: a createJob that succeeds stores exactly one new job, whose         *)
(* createdBy is the authenticated caller whatever createdBy the body       *)
(* carries, and answers 201 with that job.                                 *)

C5_CreateOwnedByCaller ==
    [][\A s \in Slots :
          (Answers(s, "createJob") /\ inflight'[s].resp.status = CREATED) =>
              LET req == inflight[s].req
                  new == DOMAIN jobs' \ DOMAIN jobs
              IN /\ Cardinality(new) = 1
                 /\ \A j \in new :
                       /\ jobs'[j].createdBy = Caller(req)
                       /\ creator'[j] = Caller(req)
                       /\ inflight'[s].resp.body.job = toJSON(jobs'[j])
                       /\ inflight'[s].resp.body.job.createdBy = req.user.userId
                       /\ req.hdr.parts[1] = createJWT(users[jobs'[j].createdBy],
                                                       req.hdr.parts[1].payload.iat)
                 /\ \A j \in DOMAIN jobs : jobs'[j] = jobs[j]]_vars

C5_Witness ==
    \E s \in Slots :
        /\ IsDone(s, "createJob")
        /\ inflight[s].resp.status = CREATED
        /\ "createdBy" \in DOMAIN inflight[s].req.body
        /\ inflight[s].req.body.createdBy # inflight[s].req.user.userId
        /\ inflight[s].resp.body.job.createdBy = inflight[s].req.user.userId

(* C6: getAllJobs answers 200 with exactly the jobs whose createdBy is the *)
(* caller, each once and as stored, in ascending createdAt, and with count *)
(* equal to their number.                                                  *)

C6_ListOwnSorted ==
    [][\A s \in Slots :
          Answers(s, "getAllJobs") =>
              LET req == inflight[s].req
                  own == {j \in DOMAIN jobs : jobs[j].createdBy = Caller(req)}
                  list == inflight'[s].resp.body.jobs
              IN /\ inflight'[s].resp.status = OK
                 /\ Len(list) = Cardinality(own)
                 /\ {list[i] : i \in DOMAIN list} = {toJSON(jobs[j]) : j \in own}
                 /\ \A i, k \in DOMAIN list : i < k => list[i].createdAt <= list[k].createdAt
                 /\ inflight'[s].resp.body.count = Len(list)
                 /\ jobs' = jobs]_vars

C6_Witness ==
    \E s \in Slots :
        /\ IsDone(s, "getAllJobs")
        /\ inflight[s].resp.status = OK
        /\ inflight[s].resp.body.count = 2
        /\ inflight[s].resp.body.jobs[1].createdAt < inflight[s].resp.body.jobs[2].createdAt
        /\ \E j \in DOMAIN jobs : jobs[j].createdBy # Caller(inflight[s].req)

(* C7: of the deleteJob requests of one caller for one job id at most one *)
(* is answered with success, also when they are in flight together: a      *)
(* deleteJob that the store executes while the job is there and is the     *)
(* caller's answers 200 and removes it in that step, every other one       *)
(* answers NotFound and changes nothing, and the job stays absent.         *)

C7_DeleteOnce ==
    [][\A s \in Slots :
          Answers(s, "deleteJob") =>
              LET req == inflight[s].req
                  owned == /\ Target(req) \in DOMAIN jobs
                           /\ jobs[Target(req)].createdBy = Caller(req)
                  before == \E o \in Slots \ {s} :
                                /\ IsDone(o, "deleteJob")
                                /\ inflight[o].req.id = req.id
                                /\ inflight[o].resp.status = OK
              IN /\ owned => /\ inflight'[s].resp = Json(OK, <<>>)
                             /\ jobs' = [j \in DOMAIN jobs \ {Target(req)} |-> jobs[j]]
                 /\ ~owned => /\ inflight'[s].resp = NotFound(req)
                              /\ jobs' = jobs
                 /\ before => inflight'[s].resp = NotFound(req)
                 /\ (owned \/ before) => Target(req) \notin DOMAIN jobs']_vars

C7_Witness ==
    \E s, o \in Slots :
        /\ IsDone(s, "deleteJob") /\ IsDone(o, "deleteJob")
        /\ inflight[s].req.id = inflight[o].req.id
        /\ inflight[s].req.user = inflight[o].req.user
        /\ inflight[s].resp.status = OK
        /\ inflight[s].raced
        /\ inflight[o].resp = NotFound(inflight[o].req)
        /\ Target(inflight[s].req) \notin DOMAIN jobs

(* C8: an updateJob of an authenticated caller whose body has company ""   *)
(* or position "" is answered 400 BadRequest on arrival, whatever else the *)
(* body holds, whether or not the job exists and whoever owns it, and the  *)
(* Job collection is left as it was.                                       *)

C8_EmptyFieldRejected ==
    [][\A s \in Slots :
          (Arrives(s) /\ inflight'[s].req.op = "updateJob") =>
              LET req == inflight'[s].req
              IN (/\ Acceptable(req.hdr, now)
                  /\ \/ ("company" \in DOMAIN req.body /\ req.body.company = "")
                     \/ ("position" \in DOMAIN req.body /\ req.body.position = "")) =>
                     /\ inflight'[s].st = "done"
                     /\ inflight'[s].resp.status = 400
                     /\ inflight'[s].resp.err = "BadRequestError"
                     /\ jobs' = jobs]_vars

C8_Witness ==
    \E s \in Slots :
        /\ IsDone(s, "updateJob")
        /\ "body" \in DOMAIN inflight[s].req
        /\ inflight[s].req.body = [company |-> "", position |-> "Analyst", status |-> "declined"]
        /\ inflight[s].resp.status = 400
        /\ Target(inflight[s].req) \in DOMAIN jobs
        /\ jobs[Target(inflight[s].req)].createdBy # Caller(inflight[s].req)

(* C9: a login with a registered email and a wrong password and a login    *)
(* with an email no account has are answered alike: 401 with the body      *)
(* {msg: "Invalid Credentials"}, no token, and the User collection as it   *)
(* was.                                                                    *)

\* The password an account was registered with
RegisteredPassword(u) == users[u].password.digest[2]

C9_LoginFailuresAlike ==
    [][\A s \in Slots :
          Answers(s, "login") =>
              LET body == inflight[s].req.body
                  unknown == \A u \in DOMAIN users : users[u].email # body.email
                  wrong == \E u \in DOMAIN users :
                               /\ users[u].email = body.email
                               /\ RegisteredPassword(u) # body.password
              IN (unknown \/ wrong) =>
                     /\ inflight'[s].resp = [status |-> 401, err |-> "UnauthenticatedError",
                                             body |-> [msg |-> "Invalid Credentials"]]
                     /\ users' = users]_vars

C9_Witness ==
    \E s \in Slots :
        /\ IsDone(s, "login")
        /\ "password" \in DOMAIN inflight[s].req.body
        /\ \E u \in DOMAIN users :
               /\ users[u].email = inflight[s].req.body.email
               /\ RegisteredPassword(u) # inflight[s].req.body.password
        /\ inflight[s].resp.status = 401
        /\ inflight[s].resp.body = [msg |-> "Invalid Credentials"]

(* C10: the token a successful register or login returns is accepted by    *)
(* the gate at every instant before its expiry, and the gate then attaches *)
(* the _id (as its hex string) and the name of the account the request     *)
(* registered or logged in to; the account holds the registered name and   *)
(* email.                                                                  *)

C10_TokenRoundTrip ==
    \A s \in Slots :
        (/\ inflight[s].st = "done"
         /\ inflight[s].req.op \in {"register", "login"}
         /\ inflight[s].resp.err = "none") =>
            LET req == inflight[s].req
                token == inflight[s].resp.body.token
                account == {u \in DOMAIN users : users[u].email = req.body.email}
            IN /\ Cardinality(account) = 1
               /\ \A u \in account :
                     /\ req.op = "register" => users[u].name = req.body.name
                     /\ inflight[s].resp.body.user.name = users[u].name
                     /\ token.payload.exp = token.payload.iat + Lifetime
                     /\ \A t \in token.payload.iat..(token.payload.exp - 1) :
                           LET a == auth(Authorization("Bearer", <<token>>), t)
                           IN /\ a.ok
                              /\ a.user = [userId |-> toHexString(users[u]._id),
                                           name |-> users[u].name]
                              /\ castObjectId(a.user.userId) = u

C10_Witness ==
    \E s \in Slots :
        /\ IsDone(s, "register")
        /\ inflight[s].resp.status = CREATED
        /\ Cardinality(DOMAIN users) = 2
        /\ inflight[s].resp.body.token.payload.iat < now
        /\ now < inflight[s].resp.body.token.payload.exp
        /\ auth(Authorization("Bearer", <<inflight[s].resp.body.token>>), now).user.name
               = inflight[s].req.body.name

====
